---- MODULE Spec2Model ----
(***************************************************************************)
(* GraphBuilder of synth-converter/src/graph/graph_builder.rs: the mapping *)
(* of a synthesis Batch record (actions, samples, chemicals, container     *)
(* positions, observations) to RDF triples in a sophia LightGraph.         *)
(*                                                                         *)
(* Every insert_* function of the source is an operator of the same name   *)
(* that yields, in program order, the steps the function performs: the     *)
(* generation of a node, the resolution of a namespace term, and the       *)
(* insertion of a triple. insert_a_batch loads the steps of one call and   *)
(* the step actions execute them one at a time; every fallible step (`?`   *)
(* in the source) may fail, and the failure is propagated to the caller.   *)
(***************************************************************************)
EXTENDS Integers, Sequences, FiniteSets, TLC

\* ------------------------------------------------------------------ bounds
MaxCalls == 2
MaxActions == 2
MaxPositions == 2
MaxItems == 1

\* ------------------------------------------------------------------- terms
\* sophia SimpleTerm: an IRI, a blank node or a literal (lexical form + datatype).
NoTerm == [kind |-> "none", ns |-> "", v |-> "", id |-> 0]

NsTerm(ns, local) == [kind |-> "iri", ns |-> ns, v |-> local, id |-> 0]

CAT(local) == NsTerm("cat", local)
RDF(local) == NsTerm("rdf", local)
QUDT(local) == NsTerm("qudt", local)
ALLORES(local) == NsTerm("allores", local)
ALLOQUAL(local) == NsTerm("alloqual", local)
OBO(local) == NsTerm("obo", local)
PURL(local) == NsTerm("purl", local)
SCHEMA(local) == NsTerm("schema", local)

\* &str as a term: a literal of datatype xsd:string.
StrLiteral(s) == [kind |-> "literal", ns |-> "xsd:string", v |-> s, id |-> 0]

\* `date_time * xsd::dateTime`: a literal typed with xsd:dateTime.
DateTimeLiteral(s) == [kind |-> "literal", ns |-> "xsd:dateTime", v |-> s, id |-> 0]

\* f64 as a term: a literal of datatype xsd:double holding the number.
NumLiteral(x) == [kind |-> "literal", ns |-> "xsd:double", v |-> "", id |-> x]

\* f64::to_string: the decimal text of the number (of the numbers the batch
\* records below hold).
to_string(x) ==
    CASE x = 18 -> "18"
      [] x = 25 -> "25"
      [] x = 300 -> "300"
      [] x = 5 -> "5"
      [] OTHER -> "NaN"

\* utils::generate_bnode_term: a fresh blank node.
generate_bnode_term(n) == [kind |-> "bnode", ns |-> "", v |-> "", id |-> n]

\* utils::generate_uri_term: a fresh named node (it can fail: `?`).
generate_uri_term(n) == [kind |-> "iri", ns |-> "generated", v |-> "", id |-> n]

\* ------------------------------------------------------------ batch record
\* Option<T>: None is <<>>, Some(x) is <<x>>.
None == <<>>
Some(x) == <<x>>
IsSome(opt) == opt # <<>>
Unwrap(opt) == opt[1]

Obs(u, x) == [unit |-> u, value |-> x]

TheContainer == [container_id |-> "C-1", container_barcode |-> "BC-1"]

TheChemical ==
    [chemical_id |-> "CH-1", chemical_name |-> "water", cas_number |-> "7732-18-5",
     smiles |-> "O", molecular_mass |-> Obs("g/mol", 18)]

ThePosition == [position |-> "A1", quantity |-> Obs("mg", 5)]

SampleItems ==
    [role : {"reagent"}, expected_datum : {None, Some(Obs("mg", 5))},
     sample_id : {"S-1"}, physical_state : {"liquid"},
     internal_bar_code : {"IB-1"}, has_chemical : {TheChemical}]

RECURSIVE SeqsUpTo(_, _)
SeqsUpTo(S, n) ==
    IF n = 0 THEN {<<>>}
    ELSE LET shorter == SeqsUpTo(S, n - 1)
         IN shorter \cup {Append(q, x) : q \in shorter, x \in S}

Samples ==
    [container : {TheContainer}, expected_datum : {Obs("mg", 25)},
     vial_type : {"round"}, vial_id : {"V-1"}, role : {"product"},
     has_sample : SeqsUpTo(SampleItems, MaxItems)]

\* Three tags of the ActionName enum that has more variants than the two the
\* dispatch names: filtrateAction stands for every other variant.
ActionNames == {"AddAction", "setTemperatureAction", "filtrateAction"}

OptionalFields ==
    {"container_info", "temperature_shaker", "temperature_tumble_stirrer",
     "speed_shaker", "dispense_type", "dispense_state",
     "has_container_position_and_quantity", "has_sample"}

Actions ==
    [action_name : ActionNames,
     start_time : {"2024-01-01T00:00:00Z"},
     ending_time : {"2024-01-01T01:00:00Z"},
     method_name : {"method"},
     equipment_name : {"equipment"},
     sub_equipment_name : {"sub-equipment"},
     container_info : {None, Some(TheContainer)},
     temperature_shaker : {None, Some(Obs("degC", 25))},
     temperature_tumble_stirrer : {None, Some(Obs("degC", 18))},
     speed_shaker : {None, Some(Obs("rpm", 300))},
     dispense_type : {None, Some("volume")},
     dispense_state : {None, Some("liquid")},
     has_container_position_and_quantity :
         {None} \cup {Some(l) : l \in SeqsUpTo({ThePosition}, MaxPositions)},
     has_sample : {None} \cup {Some(s) : s \in Samples}]

\* The action of the minimal batch: every optional field absent.
ActionMin(tag) ==
    [action_name |-> tag,
     start_time |-> "2024-01-01T00:00:00Z",
     ending_time |-> "2024-01-01T01:00:00Z",
     method_name |-> "method",
     equipment_name |-> "equipment",
     sub_equipment_name |-> "sub-equipment",
     container_info |-> None,
     temperature_shaker |-> None,
     temperature_tumble_stirrer |-> None,
     speed_shaker |-> None,
     dispense_type |-> None,
     dispense_state |-> None,
     has_container_position_and_quantity |-> None,
     has_sample |-> None]

FullItem ==
    [role |-> "reagent", expected_datum |-> Some(Obs("mg", 5)), sample_id |-> "S-1",
     physical_state |-> "liquid", internal_bar_code |-> "IB-1",
     has_chemical |-> TheChemical]

FullSample ==
    [container |-> TheContainer, expected_datum |-> Obs("mg", 25),
     vial_type |-> "round", vial_id |-> "V-1", role |-> "product",
     has_sample |-> [j \in 1..MaxItems |-> FullItem]]

\* An action with every optional field present and the lists at their bounds.
ActionFull(tag) ==
    [ActionMin(tag) EXCEPT
        !.container_info = Some(TheContainer),
        !.temperature_shaker = Some(Obs("degC", 25)),
        !.temperature_tumble_stirrer = Some(Obs("degC", 18)),
        !.speed_shaker = Some(Obs("rpm", 300)),
        !.dispense_type = Some("volume"),
        !.dispense_state = Some("liquid"),
        !.has_container_position_and_quantity =
            Some([j \in 1..MaxPositions |-> ThePosition]),
        !.has_sample = Some(FullSample)]

Batch(id, actions) == [batch_id |-> id, actions |-> actions]

\* ------------------------------------------------------------------- steps
\* One step of a call, in program order. The fields what, field, ai and idx
\* record which record of the batch a generated node stands for (action ai,
\* list element idx, optional field `field`); o of a generation step is the
\* node of the owning record.
Ins(s, p, o) ==
    [kind |-> "insert", s |-> s, p |-> p, o |-> o,
     what |-> "", field |-> "", ai |-> 0, idx |-> 0]

\* `NS.get("local")?` evaluated as the argument of a nested insert_* call that
\* generates a node before it inserts.
Res(p) ==
    [kind |-> "resolve", s |-> NoTerm, p |-> p, o |-> NoTerm,
     what |-> "", field |-> "", ai |-> 0, idx |-> 0]

GenBnode(term, owner, what, field, at) ==
    [kind |-> "gen_bnode", s |-> term, p |-> NoTerm, o |-> owner,
     what |-> what, field |-> field, ai |-> at.ai, idx |-> at.idx]

GenUri(term, owner, what, field, at) ==
    [kind |-> "gen_uri", s |-> term, p |-> NoTerm, o |-> owner,
     what |-> what, field |-> field, ai |-> at.ai, idx |-> at.idx]

IsGen(op) == op.kind \in {"gen_bnode", "gen_uri"}

\* The number of nodes a sequence of steps generates.
Mints(ops) == Cardinality({i \in 1..Len(ops) : IsGen(ops[i])})

\* The triples a sequence of steps inserts.
Inserted(ops) ==
    {<<ops[i].s, ops[i].p, ops[i].o>> : i \in {k \in 1..Len(ops) : ops[k].kind = "insert"}}

\* -------------------------------------------------------------- the mapper
\* n is the number of nodes generated so far: the next fresh identifier.

\* A bug insert_a_date_time could have: the literal is left untyped.
insert_a_date_time_untyped(subject, predicate, date_time) ==
    << Ins(subject, predicate, StrLiteral(date_time)) >>

insert_a_date_time(subject, predicate, date_time) ==
    << Ins(subject, predicate, DateTimeLiteral(date_time)) >>

insert_container_properties(subject, container_info) ==
    << Ins(subject, CAT("containerID"), StrLiteral(container_info.container_id)),
       Ins(subject, CAT("containerBarcode"), StrLiteral(container_info.container_barcode)) >>

\* A bug insert_an_observation could have: unit and value are put on the owner,
\* with no node of their own.
insert_an_observation_inlined(subject, property_term, observation, n, field, at) ==
    << Ins(subject, QUDT("unit"), StrLiteral(observation.unit)),
       Ins(subject, QUDT("value"), NumLiteral(observation.value)) >>

\* A bug insert_an_observation could have: the node is never linked to its owner.
insert_an_observation_unlinked(subject, property_term, observation, n, field, at) ==
    LET observation_term == generate_bnode_term(n)
    IN << GenBnode(observation_term, subject, "observation", field, at),
          Ins(observation_term, QUDT("unit"), StrLiteral(observation.unit)),
          Ins(observation_term, QUDT("value"), NumLiteral(observation.value)) >>

insert_an_observation(subject, property_term, observation, n, field, at) ==
    LET observation_term == generate_bnode_term(n)
    IN << GenBnode(observation_term, subject, "observation", field, at),
          Ins(subject, property_term, observation_term),
          Ins(observation_term, QUDT("unit"), StrLiteral(observation.unit)),
          Ins(observation_term, QUDT("value"), NumLiteral(observation.value)) >>

insert_a_container_position(subject, container_position, n, at) ==
    LET container_position_term == generate_bnode_term(n)
    IN << GenBnode(container_position_term, subject, "container_position",
                   "has_container_position_and_quantity", at),
          Ins(subject, CAT("hasContainerPositionAndQuantity"), container_position_term),
          Ins(container_position_term, RDF("type"), CAT("ContainerPositionAndQuantity")),
          Ins(container_position_term, ALLORES("AFR_0002240"),
              StrLiteral(container_position.position)),
          Res(QUDT("quantity")) >>
       \o insert_an_observation(container_position_term, QUDT("quantity"),
                                container_position.quantity, n + 1, "quantity", at)

insert_a_chemical(subject, chemical, n, at) ==
    LET chemical_term == generate_uri_term(n)
        molecular_mass == to_string(chemical.molecular_mass.value)
    IN << GenUri(chemical_term, subject, "chemical", "has_chemical", at),
          Ins(subject, CAT("has_chemical"), chemical_term),
          Ins(chemical_term, RDF("type"), OBO("CHEBI_25367")),
          Ins(chemical_term, PURL("identifier"), StrLiteral(chemical.chemical_id)),
          Ins(chemical_term, CAT("chemicalName"), StrLiteral(chemical.chemical_name)),
          Ins(chemical_term, CAT("casNumber"), StrLiteral(chemical.cas_number)),
          Ins(chemical_term, ALLORES("AFR_0002295"), StrLiteral(chemical.smiles)),
          Ins(chemical_term, ALLORES("AFR_0002294"), StrLiteral(molecular_mass)) >>

insert_a_sample(subject, sample_item, n, at) ==
    LET sample_item_term == generate_bnode_term(n)
        head == << GenBnode(sample_item_term, subject, "sample_item", "has_sample", at),
                   Ins(sample_item_term, RDF("type"), CAT("Sample")),
                   Ins(subject, CAT("hasSample"), sample_item_term),
                   Ins(sample_item_term, CAT("role"), StrLiteral(sample_item.role)) >>
        datum == IF IsSome(sample_item.expected_datum)
                 THEN << Res(CAT("expectedDatum")) >>
                      \o insert_an_observation(sample_item_term, CAT("expectedDatum"),
                                               Unwrap(sample_item.expected_datum),
                                               n + 1, "expected_datum", at)
                 ELSE << >>
        rest == << Ins(sample_item_term, CAT("role"), StrLiteral(sample_item.role)),
                   Ins(sample_item_term, PURL("identifier"),
                       StrLiteral(sample_item.sample_id)),
                   Ins(sample_item_term, ALLOQUAL("AFQ_0000111"),
                       StrLiteral(sample_item.physical_state)),
                   Ins(sample_item_term, CAT("internalBarCode"),
                       StrLiteral(sample_item.internal_bar_code)) >>
    IN head \o datum \o rest
       \o insert_a_chemical(sample_item_term, sample_item.has_chemical,
                            n + 1 + Mints(datum), at)

\* `for sample_item in &sample.has_sample`, from element j on.
RECURSIVE insert_sample_items(_, _, _, _, _)
insert_sample_items(subject, items, j, n, at) ==
    IF j > Len(items) THEN << >>
    ELSE LET one == insert_a_sample(subject, items[j], n, [at EXCEPT !.idx = j])
         IN one \o insert_sample_items(subject, items, j + 1, n + Mints(one), at)

insert_samples(subject, sample, n, at) ==
    LET sample_term == generate_bnode_term(n)
        head == << GenBnode(sample_term, subject, "sample", "has_sample", at),
                   Ins(subject, CAT("hasSample"), sample_term),
                   Ins(sample_term, RDF("type"), CAT("Sample")) >>
                \o insert_container_properties(sample_term, sample.container)
                \o << Res(CAT("expectedDatum")) >>
                \o insert_an_observation(sample_term, CAT("expectedDatum"),
                                         sample.expected_datum, n + 1,
                                         "expected_datum", at)
                \o << Ins(sample_term, CAT("vialShape"), StrLiteral(sample.vial_type)),
                      Ins(sample_term, ALLORES("AFR_0002464"), StrLiteral(sample.vial_id)),
                      Ins(sample_term, CAT("role"), StrLiteral(sample.role)) >>
    IN head \o insert_sample_items(sample_term, sample.has_sample, 1, n + 2, at)

\* A bug insert_action_type could have: no arm for the tags it does not name.
insert_action_type_no_fallback(subject, action) ==
    CASE action.action_name = "AddAction" ->
            << Ins(subject, RDF("type"), CAT("AddAction")) >>
      [] action.action_name = "setTemperatureAction" ->
            << Ins(subject, RDF("type"), CAT("setTemperatureAction")) >>
      [] OTHER -> << >>

insert_action_type(subject, action) ==
    CASE action.action_name = "AddAction" ->
            << Ins(subject, RDF("type"), CAT("AddAction")) >>
      [] action.action_name = "setTemperatureAction" ->
            << Ins(subject, RDF("type"), CAT("setTemperatureAction")) >>
      [] OTHER ->
            << Ins(subject, RDF("type"), ALLORES("AFRE_0000001")) >>

\* `for container_position in container_positions`, from element j on.
RECURSIVE insert_container_positions(_, _, _, _, _)
insert_container_positions(subject, positions, j, n, at) ==
    IF j > Len(positions) THEN << >>
    ELSE LET one == insert_a_container_position(subject, positions[j], n,
                                                [at EXCEPT !.idx = j])
         IN one \o insert_container_positions(subject, positions, j + 1,
                                              n + Mints(one), at)

\* A bug OptObservation could have: an absent observation is mapped as a default
\* (null-valued) one instead of being left out.
OptObservationOrDefault(subject, property_term, opt, n, field, at) ==
    << Res(property_term) >>
    \o insert_an_observation(subject, property_term,
                             IF IsSome(opt) THEN Unwrap(opt) ELSE Obs("", 0),
                             n, field, at)

\* An optional observation of an action: `if let Some(x) = &action.f { ... }`.
OptObservation(subject, property_term, opt, n, field, at) ==
    IF IsSome(opt)
    THEN << Res(property_term) >>
         \o insert_an_observation(subject, property_term, Unwrap(opt), n, field, at)
    ELSE << >>

insert_an_action(subject, action, n, at) ==
    LET action_term == generate_uri_term(n)
        s1 == << GenUri(action_term, subject, "action", "actions", at),
                 Ins(action_term, CAT("hasBatch"), subject) >>
              \o insert_a_date_time(action_term, ALLORES("AFX_0000622"), action.start_time)
              \o insert_a_date_time(action_term, ALLORES("AFR_0002423"), action.ending_time)
              \o << Ins(action_term, ALLORES("AFR_0001606"), StrLiteral(action.method_name)),
                    Ins(action_term, ALLORES("AFR_0001723"),
                        StrLiteral(action.equipment_name)),
                    Ins(action_term, CAT("localEquipmentName"),
                        StrLiteral(action.sub_equipment_name)) >>
        s2 == IF IsSome(action.container_info)
              THEN insert_container_properties(action_term, Unwrap(action.container_info))
              ELSE << >>
        s3 == OptObservation(action_term, CAT("temperatureShakerShape"),
                             action.temperature_shaker, n + 1, "temperature_shaker", at)
        s4 == OptObservation(action_term, CAT("temperatureTumbleStirrerShape"),
                             action.temperature_tumble_stirrer, n + 1 + Mints(s3),
                             "temperature_tumble_stirrer", at)
        s5 == OptObservation(action_term, CAT("speedInRPM"), action.speed_shaker,
                             n + 1 + Mints(s3 \o s4), "speed_shaker", at)
        s6 == IF IsSome(action.dispense_type)
              THEN << Ins(action_term, CAT("dispenseType"),
                          StrLiteral(Unwrap(action.dispense_type))) >>
              ELSE << >>
        s7 == IF IsSome(action.dispense_state)
              THEN << Ins(action_term, ALLOQUAL("AFQ_0000111"),
                          StrLiteral(Unwrap(action.dispense_state))) >>
              ELSE << >>
        s8 == IF IsSome(action.has_container_position_and_quantity)
              THEN insert_container_positions(
                       action_term, Unwrap(action.has_container_position_and_quantity),
                       1, n + 1 + Mints(s3 \o s4 \o s5), at)
              ELSE << >>
        s9 == IF IsSome(action.has_sample)
              THEN insert_samples(action_term, Unwrap(action.has_sample),
                                  n + 1 + Mints(s3 \o s4 \o s5 \o s8), at)
              ELSE << >>
    IN s1 \o s2 \o s3 \o s4 \o s5 \o s6 \o s7 \o s8 \o s9
       \o insert_action_type(action_term, action)

\* `for action in &batch.actions`, from action i on.
RECURSIVE insert_actions(_, _, _, _)
insert_actions(subject, actions, i, n) ==
    IF i > Len(actions) THEN << >>
    ELSE LET one == insert_an_action(subject, actions[i], n, [ai |-> i, idx |-> 0])
         IN one \o insert_actions(subject, actions, i + 1, n + Mints(one))

\* A bug insert_a_batch could have: the batch node has a fixed identifier.
insert_a_batch_fixed_node(batch, n) ==
    LET batch_term == generate_bnode_term(0)
    IN << GenBnode(batch_term, NoTerm, "batch", "", [ai |-> 0, idx |-> 0]),
          Ins(batch_term, RDF("type"), CAT("Batch")),
          Ins(batch_term, SCHEMA("name"), StrLiteral(batch.batch_id)) >>
       \o insert_actions(batch_term, batch.actions, 1, n + 1)

insert_a_batch(batch, n) ==
    LET batch_term == generate_bnode_term(n)
    IN << GenBnode(batch_term, NoTerm, "batch", "", [ai |-> 0, idx |-> 0]),
          Ins(batch_term, RDF("type"), CAT("Batch")),
          Ins(batch_term, SCHEMA("name"), StrLiteral(batch.batch_id)) >>
       \o insert_actions(batch_term, batch.actions, 1, n + 1)

\* ------------------------------------------------------------------- state
VARIABLES
    graph,      \* GraphBuilder.graph: the triples of the LightGraph
    minted,     \* the nodes generated so far, each with the record it stands for
    next_id,    \* the number of nodes generated so far
    plan,       \* the steps of the current (or last) insert_a_batch call
    pos,        \* how many of them are behind the program counter
    result,     \* what the last insert_a_batch call returned
    failedAt,   \* the step of the call that failed, 0 when none did
    pre,        \* the graph when the call began
    batch,      \* the argument of the call
    ncalls,     \* the number of insert_a_batch calls made
    nInserts,   \* the number of graph.insert calls that returned Ok
    nErr,       \* the number of insert_a_batch calls that returned Err
    turtle      \* what the last serialize_to_turtle returned

vars == <<graph, minted, next_id, plan, pos, result, failedAt, pre, batch,
          ncalls, nInserts, nErr, turtle>>

NoBatch == Batch("", << >>)
NoOutput == [written |-> FALSE, triples |-> {}]

\* GraphBuilder::new: an empty graph, and no call made yet.
Init ==
    /\ graph = {}
    /\ minted = {}
    /\ next_id = 0
    /\ plan = << >>
    /\ pos = 0
    /\ result = "none"
    /\ failedAt = 0
    /\ pre = {}
    /\ batch = NoBatch
    /\ ncalls = 0
    /\ nInserts = 0
    /\ nErr = 0
    /\ turtle = NoOutput

Idle == pos = Len(plan)
Cur == plan[pos + 1]

\* MutableGraph::insert on a LightGraph: the graph is a set of triples.
LightGraphInsert(g, s, p, o) == g \cup {<<s, p, o>>}

\* serialize_graph_to_turtle: the triples of the graph, written with the prefix map.
serialize_graph_to_turtle(g) == [written |-> TRUE, triples |-> g]

\* A bug the propagation could have: the failing step is skipped and the call
\* goes on with the next one.
PropagateSkip(steps, at) == at + 1

\* `?`: the error leaves the enclosing functions at once, up to the caller of
\* insert_a_batch; none of the remaining steps of the call runs.
Propagate(steps, at) == Len(steps)

\* The entry of minted for a generation step.
Generated(op, call) ==
    [term |-> op.s, owner |-> op.o, what |-> op.what, field |-> op.field,
     ai |-> op.ai, idx |-> op.idx, call |-> call]

\* The program counter moves past a step that returned; after the last step
\* the call returns Ok(()).
Advance ==
    /\ pos' = pos + 1
    /\ result' = IF pos + 1 = Len(plan) /\ result = "running" THEN "Ok" ELSE result

\* A bug insert_a_batch could have: it starts from a new, empty graph.
InsertABatchOnNewGraph(batches, limit) ==
    /\ Idle
    /\ ncalls < limit
    /\ \E b \in batches :
          /\ plan' = insert_a_batch(b, next_id)
          /\ batch' = b
    /\ graph' = {}
    /\ pos' = 0
    /\ result' = "running"
    /\ failedAt' = 0
    /\ pre' = {}
    /\ ncalls' = ncalls + 1
    /\ turtle' = NoOutput
    /\ UNCHANGED <<minted, next_id, nInserts, nErr>>

\* insert_a_batch is called with a batch of `batches`; at most `limit` calls
\* are made.
InsertABatch(batches, limit) ==
    /\ Idle
    /\ ncalls < limit
    /\ \E b \in batches :
          /\ plan' = insert_a_batch(b, next_id)
          /\ batch' = b
    /\ pos' = 0
    /\ result' = "running"
    /\ failedAt' = 0
    /\ pre' = graph
    /\ ncalls' = ncalls + 1
    /\ turtle' = NoOutput
    /\ UNCHANGED <<graph, minted, next_id, nInserts, nErr>>

GenerateBnodeTerm ==
    /\ ~Idle
    /\ Cur.kind = "gen_bnode"
    /\ minted' = minted \cup {Generated(Cur, ncalls)}
    /\ next_id' = next_id + 1
    /\ Advance
    /\ UNCHANGED <<graph, plan, failedAt, pre, batch, ncalls, nInserts, nErr, turtle>>

GenerateUriTerm ==
    /\ ~Idle
    /\ Cur.kind = "gen_uri"
    /\ minted' = minted \cup {Generated(Cur, ncalls)}
    /\ next_id' = next_id + 1
    /\ Advance
    /\ UNCHANGED <<graph, plan, failedAt, pre, batch, ncalls, nInserts, nErr, turtle>>

NsGet ==
    /\ ~Idle
    /\ Cur.kind = "resolve"
    /\ Advance
    /\ UNCHANGED <<graph, minted, next_id, plan, failedAt, pre, batch, ncalls,
                   nInserts, nErr, turtle>>

GraphInsert ==
    /\ ~Idle
    /\ Cur.kind = "insert"
    /\ graph' = LightGraphInsert(graph, Cur.s, Cur.p, Cur.o)
    /\ nInserts' = nInserts + 1
    /\ Advance
    /\ UNCHANGED <<minted, next_id, plan, failedAt, pre, batch, ncalls, nErr, turtle>>

\* A fallible step (generate_uri_term()?, NS.get(..)?, graph.insert(..)?)
\* returns Err.
Fail ==
    /\ ~Idle
    /\ result = "running"
    /\ Cur.kind \in {"gen_uri", "resolve", "insert"}
    /\ result' = "Err"
    /\ failedAt' = pos + 1
    /\ pos' = Propagate(plan, pos)
    /\ nErr' = nErr + 1
    /\ UNCHANGED <<graph, minted, next_id, plan, pre, batch, ncalls, nInserts, turtle>>

SerializeToTurtle ==
    /\ Idle
    /\ turtle' = serialize_graph_to_turtle(graph)
    /\ UNCHANGED <<graph, minted, next_id, plan, pos, result, failedAt, pre, batch,
                   ncalls, nInserts, nErr>>

\* ---------------------------------------------------------- specifications
\* A builder that is called several times, with failures: an empty batch, the
\* minimal batch, and a batch of two actions, the first with a sample that
\* holds an observation and a sample item with its chemical.
OneItemSample ==
    [container |-> TheContainer, expected_datum |-> Obs("mg", 25),
     vial_type |-> "round", vial_id |-> "V-1", role |-> "product",
     has_sample |-> << [FullItem EXCEPT !.expected_datum = None] >>]

NestedAction ==
    [ActionMin("setTemperatureAction") EXCEPT !.has_sample = Some(OneItemSample)]

SmallBatches ==
    { Batch("B-0", << >>),
      Batch("B-1", << ActionMin("AddAction") >>),
      Batch("B-2", << NestedAction, ActionMin("filtrateAction") >>) }

Next ==
    \/ InsertABatch(SmallBatches, MaxCalls)
    \/ GenerateBnodeTerm
    \/ GenerateUriTerm
    \/ NsGet
    \/ GraphInsert
    \/ Fail
    \/ SerializeToTurtle

Spec == Init /\ [][Next]_vars

\* One conversion on a new builder in which no step fails: a batch of one
\* action with any combination of optional fields, or a batch of up to
\* MaxActions actions that have none or all of them.
RichActions == {ActionMin("AddAction"), ActionFull("filtrateAction")}

OneBatches ==
    {Batch("B-1", << a >>) : a \in Actions}
    \cup {Batch("B-1", q) : q \in SeqsUpTo(RichActions, MaxActions)}

NextOne ==
    \/ InsertABatch(OneBatches, 1)
    \/ GenerateBnodeTerm
    \/ GenerateUriTerm
    \/ NsGet
    \/ GraphInsert

SpecOne == Init /\ [][NextOne]_vars

\* ------------------------------------------------------------------ claims
\* The last insert_a_batch call has returned Ok(()).
Done == Idle /\ result = "Ok"

\* The objects of the triples of g with subject s and predicate p.
Objects(g, s, p) == {t[3] : t \in {u \in g : u[1] = s /\ u[2] = p}}

\* The triples of g with subject s.
About(g, s) == {t \in g : t[1] = s}

\* The nodes the current call generated for a kind of record.
ActionNodes(i) ==
    {m.term : m \in {k \in minted : k.call = ncalls /\ k.what = "action" /\ k.ai = i}}

ItemNodes(i, j) ==
    {m.term : m \in {k \in minted : /\ k.call = ncalls
                                    /\ k.what = "sample_item"
                                    /\ k.ai = i
                                    /\ k.idx = j}}

BatchNodes(call) ==
    {m.term : m \in {k \in minted : k.call = call /\ k.what = "batch"}}

\* The predicates an optional field is mapped to.
FieldPredicates(f) ==
    CASE f = "container_info" -> {CAT("containerID"), CAT("containerBarcode")}
      [] f = "temperature_shaker" -> {CAT("temperatureShakerShape")}
      [] f = "temperature_tumble_stirrer" -> {CAT("temperatureTumbleStirrerShape")}
      [] f = "speed_shaker" -> {CAT("speedInRPM")}
      [] f = "dispense_type" -> {CAT("dispenseType")}
      [] f = "dispense_state" -> {ALLOQUAL("AFQ_0000111")}
      [] f = "has_container_position_and_quantity" ->
            {CAT("hasContainerPositionAndQuantity")}
      [] f = "has_sample" -> {CAT("hasSample")}
      [] f = "expected_datum" -> {CAT("expectedDatum")}

AbsentFields(a) == {f \in OptionalFields : ~IsSome(a[f])}

ItemsOf(a) == IF IsSome(a.has_sample) THEN Unwrap(a.has_sample).has_sample ELSE << >>

PositionsOf(a) ==
    IF IsSome(a.has_container_position_and_quantity)
    THEN Unwrap(a.has_container_position_and_quantity)
    ELSE << >>

\* No triple of the node has a predicate of field f, and no node was generated
\* for field f of the node's record.
NoTrace(node, f) ==
    /\ \A t \in graph : ~(t[1] = node /\ t[2] \in FieldPredicates(f))
    /\ \A m \in minted : ~(m.owner = node /\ m.field = f)

\* C1. Presence policy: after a completed insert_a_batch, every action and
\* every sample item has its node, and for each of its optional fields that is
\* absent the graph holds no triple with that node as subject and that field's
\* predicate, and no node was generated for that field.
C1_PresencePolicy ==
    Done =>
      \A i \in 1..Len(batch.actions) :
        LET a == batch.actions[i]
        IN /\ Cardinality(ActionNodes(i)) = 1
           /\ \A node \in ActionNodes(i) :
                \A f \in AbsentFields(a) : NoTrace(node, f)
           /\ \A j \in 1..Len(ItemsOf(a)) :
                /\ Cardinality(ItemNodes(i, j)) = 1
                /\ \A node \in ItemNodes(i, j) :
                     ~IsSome(ItemsOf(a)[j].expected_datum)
                        => NoTrace(node, "expected_datum")

\* C1 witness: a completed call on an action that has some optional fields and
\* lacks others, with a sample item that has no expected datum.
C1_Witness ==
    /\ Done
    /\ \E i \in 1..Len(batch.actions) :
         LET a == batch.actions[i]
         IN /\ ~IsSome(a.temperature_shaker)
            /\ ~IsSome(a.dispense_type)
            /\ IsSome(a.speed_shaker)
            /\ IsSome(a.container_info)
            /\ \E j \in 1..Len(ItemsOf(a)) : ~IsSome(ItemsOf(a)[j].expected_datum)

\* The predicates whose object is a measured quantity of the batch record.
QuantityPredicates ==
    {CAT("temperatureShakerShape"), CAT("temperatureTumbleStirrerShape"),
     CAT("speedInRPM"), CAT("expectedDatum"), QUDT("quantity"),
     ALLORES("AFR_0002294")}

\* o is an observation node: a blank node that is the object of one triple and
\* the subject of exactly two, a qudt:unit string and a qudt:value number.
IsObservationNode(o) ==
    /\ o.kind = "bnode"
    /\ Cardinality({t \in graph : t[3] = o}) = 1
    /\ Cardinality(About(graph, o)) = 2
    /\ \E u \in Objects(graph, o, QUDT("unit")) :
          u.kind = "literal" /\ u.ns = "xsd:string"
    /\ \E x \in Objects(graph, o, QUDT("value")) :
          x.kind = "literal" /\ x.ns = "xsd:double"

\* C3. Observation encoding: after a completed insert_a_batch every measured
\* quantity (temperatures, speed, expected datum, container quantity, molecular
\* mass) is the object of a triple from its owner, and that object is an
\* observation node, never a literal; and every observation of an action is
\* in the graph.
C3_ObservationEncoding ==
    Done =>
      /\ \A t \in graph : t[2] \in QuantityPredicates => IsObservationNode(t[3])
      /\ \A i \in 1..Len(batch.actions) :
           \A node \in ActionNodes(i) :
             \A f \in {"temperature_shaker", "temperature_tumble_stirrer", "speed_shaker"} :
               IsSome(batch.actions[i][f])
                 => \A p \in FieldPredicates(f) : Objects(graph, node, p) # {}

\* C7. The mapper never inserts a triple twice: the number of graph.insert
\* calls that returned equals the number of distinct triples of the graph.
C7_NoDuplicateInsert == nInserts = Cardinality(graph)

\* The substructure instances of a batch record.
RECURSIVE SumOver(_, _, _)
SumOver(F(_), q, i) == IF i > Len(q) THEN 0 ELSE F(q[i]) + SumOver(F, q, i + 1)

OneIfSome(opt) == IF IsSome(opt) THEN 1 ELSE 0

\* Sample levels of an action: the sample and each of its sample items.
SampleLevels(a) == IF IsSome(a.has_sample) THEN 1 + Len(ItemsOf(a)) ELSE 0

Chemicals(a) == Len(ItemsOf(a))

ContainerPositions(a) == Len(PositionsOf(a))

ItemDatum(item) == OneIfSome(item.expected_datum)

\* The observations insert_an_observation is called for.
MappedObservations(a) ==
    OneIfSome(a.temperature_shaker) + OneIfSome(a.temperature_tumble_stirrer)
    + OneIfSome(a.speed_shaker) + ContainerPositions(a)
    + OneIfSome(a.has_sample) + SumOver(ItemDatum, ItemsOf(a), 1)

\* Every Observation value of the record: the molecular mass of a chemical too.
Observations(a) == MappedObservations(a) + Chemicals(a)

ClaimedInstances(a) ==
    1 + SampleLevels(a) + Chemicals(a) + Observations(a) + ContainerPositions(a)

BlankInstances(a) == SampleLevels(a) + MappedObservations(a) + ContainerPositions(a)

NamedInstances(a) == 1 + Chemicals(a)

Terms(ms) == {m.term : m \in ms}
BlankNodes(ms) == {t \in Terms(ms) : t.kind = "bnode"}
NamedNodes(ms) == {t \in Terms(ms) : t.kind = "iri"}

\* The observation nodes generated for the record of node `owner`.
ObservationsOf(owner) ==
    {m.term : m \in {k \in minted : k.what = "observation" /\ k.owner = owner}}

PositionNodes ==
    {m.term : m \in {k \in minted : k.what = "container_position"}}

\* C2 as claimed: after a completed insert_a_batch the number of distinct blank
\* nodes generated equals the number of substructure instances of the batch
\* (one per action, sample level, chemical, observation, container position),
\* and no two instances share a node.
C2_BlankNodePerInstance ==
    Done =>
      /\ Cardinality(BlankNodes(minted)) = SumOver(ClaimedInstances, batch.actions, 1)
      /\ Cardinality(Terms(minted)) = Cardinality(minted)

\* C2 as amended: after a completed insert_a_batch the generated nodes are
\* pairwise distinct, one per instance: blank nodes for the batch, every sample
\* level, every container position and every observation mapped by
\* insert_an_observation, named nodes for every action and every chemical;
\* a molecular mass has no node. Each container position node owns exactly one
\* observation node, which no other position owns.
C2_NodePerInstance ==
    Done =>
      /\ Cardinality(Terms(minted)) = Cardinality(minted)
      /\ Cardinality(BlankNodes(minted)) = 1 + SumOver(BlankInstances, batch.actions, 1)
      /\ Cardinality(NamedNodes(minted)) = SumOver(NamedInstances, batch.actions, 1)
      /\ Cardinality(PositionNodes) = SumOver(ContainerPositions, batch.actions, 1)
      /\ \A c \in PositionNodes :
            /\ Cardinality(ObservationsOf(c)) = 1
            /\ Objects(graph, c, QUDT("quantity")) = ObservationsOf(c)
            /\ \A d \in PositionNodes \ {c} : ObservationsOf(c) \cap ObservationsOf(d) = {}

\* C2 witness: a completed call on a batch of two actions, one of them with two
\* container positions and a sample with a sample item.
C2_Witness ==
    /\ Done
    /\ Len(batch.actions) >= 2
    /\ \E i \in 1..Len(batch.actions) :
          /\ Len(PositionsOf(batch.actions[i])) >= 2
          /\ Len(ItemsOf(batch.actions[i])) >= 1

\* The nodes reached from the nodes of `frontier` by following triples of the
\* graph from subject to object.
RECURSIVE Reach(_, _)
Reach(frontier, seen) ==
    LET next == {t[3] : t \in {u \in graph : u[1] \in frontier}} \ (seen \cup frontier)
    IN IF next = {} THEN seen \cup frontier ELSE Reach(next, seen \cup frontier)

TypedBatch == {t[1] : t \in {u \in graph : u[2] = RDF("type") /\ u[3] = CAT("Batch")}}

\* C8 as claimed: after a completed insert_a_batch on a new graph there is one
\* batch node, a blank node generated once, and every other generated node is
\* reached from it by following triples from subject to object.
C8_DescendantsOfBatch ==
    Done =>
      /\ Cardinality(TypedBatch) = 1
      /\ TypedBatch = BatchNodes(ncalls)
      /\ \A b \in TypedBatch :
            /\ b.kind = "bnode"
            /\ Terms(minted) \subseteq Reach({b}, {})

\* C8 as amended: after a completed insert_a_batch on a new graph there is one
\* batch node, a blank node generated once; every action node is the subject of
\* a cat:hasBatch triple whose object is the batch node (the edge runs from the
\* action to the batch, and the batch node is the subject of no edge to a
\* node), and every sample, sample-item, chemical, container-position and
\* observation node is reached from the node of its action by following
\* triples from subject to object.
C8_NoOrphanNodes ==
    Done =>
      /\ Cardinality(TypedBatch) = 1
      /\ TypedBatch = BatchNodes(ncalls)
      /\ \A b \in TypedBatch :
            /\ b.kind = "bnode"
            /\ Reach({b}, {}) \cap Terms(minted) = {b}
            /\ \A m \in minted :
                  /\ m.what = "action" => <<m.term, CAT("hasBatch"), b>> \in graph
                  /\ m.what \notin {"batch", "action"} =>
                        /\ Cardinality(ActionNodes(m.ai)) = 1
                        /\ m.term \in Reach(ActionNodes(m.ai), {})

\* C8 witness: a completed call on a batch of two actions with samples, sample
\* items, chemicals, container positions and observations.
C8_Witness ==
    /\ Done
    /\ Cardinality({i \in 1..Len(batch.actions) :
                       /\ Len(ItemsOf(batch.actions[i])) >= 1
                       /\ Len(PositionsOf(batch.actions[i])) >= 1}) >= 2

\* The minimal batch: id "B-1", one AddAction, every optional field absent.
MinimalBatch == Batch("B-1", << ActionMin("AddAction") >>)

\* The triples the claim lists for the minimal batch, for batch node b and
\* action node a.
ClaimedMinimalTriples(b, a) ==
    { <<b, RDF("type"), CAT("Batch")>>,
      <<b, SCHEMA("name"), StrLiteral("B-1")>>,
      <<a, CAT("hasBatch"), b>>,
      <<a, RDF("type"), CAT("AddAction")>>,
      <<a, ALLORES("AFX_0000622"), DateTimeLiteral("2024-01-01T00:00:00Z")>> }

\* The triples of the fields of an action that are not optional.
MandatoryTriples(a) ==
    { <<a, ALLORES("AFR_0002423"), DateTimeLiteral("2024-01-01T01:00:00Z")>>,
      <<a, ALLORES("AFR_0001606"), StrLiteral("method")>>,
      <<a, ALLORES("AFR_0001723"), StrLiteral("equipment")>>,
      <<a, CAT("localEquipmentName"), StrLiteral("sub-equipment")>> }

\* C9 as claimed: a completed insert_a_batch of the minimal batch produces the
\* Batch type and name triples, the action's cat:hasBatch, type and start-time
\* triples, and no others.
C9_MinimalBatchExactly ==
    (Done /\ batch = MinimalBatch) =>
      \E b \in BatchNodes(ncalls) : \E a \in ActionNodes(1) :
         graph = ClaimedMinimalTriples(b, a)

\* C9 as amended: a completed insert_a_batch of the minimal batch produces
\* those five triples and the four of the action's other mandatory fields
\* (ending time as a date-time literal, method name, equipment name, local
\* equipment name), and no others.
C9_MinimalBatch ==
    (Done /\ batch = MinimalBatch) =>
      \E b \in BatchNodes(ncalls) : \E a \in ActionNodes(1) :
         graph = ClaimedMinimalTriples(b, a) \cup MandatoryTriples(a)

\* C9 witness: the call on the minimal batch has completed.
C9_Witness == Done /\ batch = MinimalBatch /\ Cardinality(graph) > 0

\* The class the dispatch of insert_action_type gives a tag.
ClassOf(tag) ==
    CASE tag = "AddAction" -> CAT("AddAction")
      [] tag = "setTemperatureAction" -> CAT("setTemperatureAction")
      [] OTHER -> ALLORES("AFRE_0000001")

\* C4. Type dispatch with fallback: a call in which no step failed returns Ok
\* whatever the tags of its actions, and after a completed insert_a_batch every
\* action has exactly one rdf:type triple, whose object is cat:AddAction,
\* cat:setTemperatureAction or, for every other tag, allores:AFRE_0000001.
C4_TypeDispatch ==
    /\ (Idle /\ ncalls > 0 /\ failedAt = 0) => result = "Ok"
    /\ Done =>
         \A i \in 1..Len(batch.actions) :
           /\ Cardinality(ActionNodes(i)) = 1
           /\ \A node \in ActionNodes(i) :
                {t \in graph : t[1] = node /\ t[2] = RDF("type")}
                   = {<<node, RDF("type"), ClassOf(batch.actions[i].action_name)>>}

\* C4 witness: a completed call on a batch with an action of a tag the
\* dispatch does not name, and one of a tag it names.
C4_Witness ==
    /\ Done
    /\ \E i, j \in 1..Len(batch.actions) :
          /\ batch.actions[i].action_name = "filtrateAction"
          /\ batch.actions[j].action_name = "setTemperatureAction"

\* C5. The graph grows monotonically: no step of any operation removes a
\* triple from the graph.
C5_GraphMonotonic == [][graph \subseteq graph']_vars

\* C5 witness: a second insert_a_batch on a graph that held triples has run to
\* its end and added triples, and the graph was serialized afterwards.
C5_Witness ==
    /\ Idle
    /\ ncalls >= 2
    /\ pre # {}
    /\ pre \subseteq graph
    /\ pre # graph
    /\ turtle.written

\* C6. Abort on first failure, no rollback, no skipping: when a step of
\* insert_a_batch fails the call returns Err at once, and the graph is the
\* graph the call began with plus the triples of the steps before the failing
\* one, and nothing else.
C6_AbortOnFirstFailure ==
    result = "Err" =>
      /\ Idle
      /\ failedAt \in 1..Len(plan)
      /\ graph = pre \cup Inserted(SubSeq(plan, 1, failedAt - 1))

\* C6 witness: a second call, on a graph that holds triples, failed inside the
\* chemical of the sample item of its first action, with the rest of the
\* chemical, the type of the action and a second action still to map.
C6_Witness ==
    /\ result = "Err"
    /\ ncalls >= 2
    /\ pre # {}
    /\ Len(batch.actions) = 2
    /\ failedAt \in 1..Len(plan)
    /\ plan[failedAt].kind = "insert"
    /\ plan[failedAt].p = CAT("chemicalName")
    /\ Inserted(SubSeq(plan, 1, failedAt - 1)) # {}
    /\ Inserted(SubSeq(plan, failedAt, Len(plan))) \cap graph = {}

\* C10. insert_a_batch does not reset the graph: after k calls that all
\* returned Ok the graph holds k distinct nodes of type cat:Batch, and every
\* action node is the subject of exactly one cat:hasBatch triple, whose object
\* is the batch node of the call that mapped the action.
C10_BatchPerCall ==
    (Idle /\ nErr = 0) =>
      /\ Cardinality(TypedBatch) = ncalls
      /\ \A m \in minted :
            m.what = "action" =>
              /\ Cardinality(BatchNodes(m.call)) = 1
              /\ Objects(graph, m.term, CAT("hasBatch")) = BatchNodes(m.call)

\* C10 witness: two calls that mapped actions have returned Ok.
C10_Witness ==
    /\ Idle
    /\ nErr = 0
    /\ ncalls >= 2
    /\ Cardinality({m.call : m \in {k \in minted : k.what = "action"}}) >= 2

====
